---------------------------- MODULE Spec2Model ----------------------------
(***************************************************************************)
(* Model of the chat application: the Express server (session store,      *)
(* message relay to the Groq provider) and the React client.               *)
(*                                                                         *)
(* Strings the code inspects (request messages, error texts) are tuples    *)
(* of one-character strings, so that trim(), includes() and the client's   *)
(* /(\d+)s/ match are computed as the code computes them.                  *)
(* The per-message timestamp field of the schema is not modelled: no       *)
(* handler or client code reads it except to render it.                    *)
(***************************************************************************)
EXTENDS Integers, Sequences, FiniteSets, TLC

\* ------------------------------------------------------------- bounds
MaxClock == 2   \* Date.now() takes the values 1..MaxClock
MaxReq == 2     \* request handlers that can be in flight together
MaxDocs == 2    \* documents in the collection (stored or being created)
MaxMsgs == 4    \* messages over the whole collection, pending ones included
MaxOps == 2     \* requests the client awaits together
MaxArrivals == 3

\* windowMs / max of the limiter: max requests of an address in a window
max == 100

\* req.ip of the callers
Addresses == {"a", "b"}

\* ------------------------------------------------------------- texts
\* 'Message is required'
ERR_REQUIRED == <<"M","e","s","s","a","g","e"," ","i","s"," ","r","e","q","u","i","r","e","d">>
\* 'Groq API key not configured'
ERR_NOKEY == <<"G","r","o","q"," ","A","P","I"," ","k","e","y"," ","n","o","t"," ","c","o","n","f","i","g","u","r","e","d">>
\* 'Rate limit exceeded. Please wait a moment before trying again.'
ERR_RATE == <<"R","a","t","e"," ","l","i","m","i","t"," ","e","x","c","e","e","d","e","d","."," ","P","l","e","a","s","e"," ","w","a","i","t"," ","a"," ","m","o","m","e","n","t"," ","b","e","f","o","r","e"," ","t","r","y","i","n","g"," ","a","g","a","i","n",".">>
\* 'Invalid Groq API key'
ERR_AUTH == <<"I","n","v","a","l","i","d"," ","G","r","o","q"," ","A","P","I"," ","k","e","y">>
\* 'AI model not found. Please check your API configuration.'
ERR_MODEL == <<"A","I"," ","m","o","d","e","l"," ","n","o","t"," ","f","o","u","n","d","."," ","P","l","e","a","s","e"," ","c","h","e","c","k"," ","y","o","u","r"," ","A","P","I"," ","c","o","n","f","i","g","u","r","a","t","i","o","n",".">>
\* 'Failed to process message. Please try again later.'
ERR_PROCESS == <<"F","a","i","l","e","d"," ","t","o"," ","p","r","o","c","e","s","s"," ","m","e","s","s","a","g","e","."," ","P","l","e","a","s","e"," ","t","r","y"," ","a","g","a","i","n"," ","l","a","t","e","r",".">>
\* 'Chat session not found'
ERR_NOCHAT == <<"C","h","a","t"," ","s","e","s","s","i","o","n"," ","n","o","t"," ","f","o","u","n","d">>
\* 'Groq API test failed'
ERR_TEST == <<"G","r","o","q"," ","A","P","I"," ","t","e","s","t"," ","f","a","i","l","e","d">>
\* 'No response generated'
NO_RESPONSE == <<"N","o"," ","r","e","s","p","o","n","s","e"," ","g","e","n","e","r","a","t","e","d">>
\* 'API key', the text the catch block looks for
API_KEY == <<"A","P","I"," ","k","e","y">>

\* the texts of the client
\* 'Failed to load chat sessions'
CERR_SESSIONS == <<"F","a","i","l","e","d"," ","t","o"," ","l","o","a","d"," ","c","h","a","t"," ","s","e","s","s","i","o","n","s">>
\* 'Failed to load chat history'
CERR_HISTORY == <<"F","a","i","l","e","d"," ","t","o"," ","l","o","a","d"," ","c","h","a","t"," ","h","i","s","t","o","r","y">>
\* 'Failed to create new chat session'
CERR_CREATE == <<"F","a","i","l","e","d"," ","t","o"," ","c","r","e","a","t","e"," ","n","e","w"," ","c","h","a","t"," ","s","e","s","s","i","o","n">>
\* 'Failed to delete chat session'
CERR_DELETE == <<"F","a","i","l","e","d"," ","t","o"," ","d","e","l","e","t","e"," ","c","h","a","t"," ","s","e","s","s","i","o","n">>
\* 'Rate limit exceeded. Please wait a moment before trying again.'
CERR_RATE == <<"R","a","t","e"," ","l","i","m","i","t"," ","e","x","c","e","e","d","e","d","."," ","P","l","e","a","s","e"," ","w","a","i","t"," ","a"," ","m","o","m","e","n","t"," ","b","e","f","o","r","e"," ","t","r","y","i","n","g"," ","a","g","a","i","n",".">>
\* 'API key error. Please check your configuration.'
CERR_KEY == <<"A","P","I"," ","k","e","y"," ","e","r","r","o","r","."," ","P","l","e","a","s","e"," ","c","h","e","c","k"," ","y","o","u","r"," ","c","o","n","f","i","g","u","r","a","t","i","o","n",".">>
\* 'Failed to send message. Please try again.'
CERR_SEND == <<"F","a","i","l","e","d"," ","t","o"," ","s","e","n","d"," ","m","e","s","s","a","g","e","."," ","P","l","e","a","s","e"," ","t","r","y"," ","a","g","a","i","n",".">>
\* 'Rate limit exceeded'
RATE_LIMIT_EXCEEDED == <<"R","a","t","e"," ","l","i","m","i","t"," ","e","x","c","e","e","d","e","d">>
\* 'Rate limit exceeded. Please wait '
WAIT_PREFIX == <<"R","a","t","e"," ","l","i","m","i","t"," ","e","x","c","e","e","d","e","d","."," ","P","l","e","a","s","e"," ","w","a","i","t"," ">>
\* 's before trying again.'
WAIT_SUFFIX == <<"s"," ","b","e","f","o","r","e"," ","t","r","y","i","n","g"," ","a","g","a","i","n",".">>

\* ------------------------------------------------------------- strings
\* String.prototype.includes
Includes(s, sub) ==
  \E i \in 0..(Len(s) - Len(sub)) : \A j \in 1..Len(sub) : s[i + j] = sub[j]

RECURSIVE TrimStart(_)
TrimStart(s) == IF s # <<>> /\ Head(s) = " " THEN TrimStart(Tail(s)) ELSE s

RECURSIVE TrimEnd(_)
TrimEnd(s) ==
  IF s # <<>> /\ s[Len(s)] = " " THEN TrimEnd(SubSeq(s, 1, Len(s) - 1)) ELSE s

\* String.prototype.trim
Trim(s) == TrimEnd(TrimStart(s))

IsDigit(c) == c \in {"0", "1", "2", "3", "4", "5", "6", "7", "8", "9"}

DigitValue(c) ==
  CASE c = "0" -> 0 [] c = "1" -> 1 [] c = "2" -> 2 [] c = "3" -> 3
    [] c = "4" -> 4 [] c = "5" -> 5 [] c = "6" -> 6 [] c = "7" -> 7
    [] c = "8" -> 8 [] c = "9" -> 9

DigitChar(d) == <<"0", "1", "2", "3", "4", "5", "6", "7", "8", "9">>[d + 1]

\* parseInt of a run of digits
RECURSIVE ParseInt(_)
ParseInt(ds) ==
  IF ds = <<>> THEN 0
  ELSE 10 * ParseInt(SubSeq(ds, 1, Len(ds) - 1)) + DigitValue(ds[Len(ds)])

\* `${n}` of a number n >= 0
RECURSIVE NumberText(_)
NumberText(n) ==
  IF n < 10 THEN <<DigitChar(n)>>
  ELSE Append(NumberText(n \div 10), DigitChar(n % 10))

\* the end of the run of digits that starts at place i of s
RECURSIVE RunEnd(_, _)
RunEnd(s, i) ==
  IF i < Len(s) /\ IsDigit(s[i + 1]) THEN RunEnd(s, i + 1) ELSE i

\* the places at which /(\d+)s/ matches: a digit whose run is followed by s
MatchStarts(s) ==
  { i \in 1..Len(s) :
      /\ IsDigit(s[i])
      /\ RunEnd(s, i) < Len(s)
      /\ s[RunEnd(s, i) + 1] = "s" }

\* errorMessage.match(/(\d+)s/): the digits of the first match, <<>> for null
MatchSeconds(s) ==
  IF MatchStarts(s) = {} THEN <<>>
  ELSE LET i == CHOOSE k \in MatchStarts(s) : \A j \in MatchStarts(s) : k <= j
       IN SubSeq(s, i, RunEnd(s, i))

\* ------------------------------------------------------------- inputs
\* req.body of a message post: {} or {message: <text>}
Bodies ==
  { [has |-> FALSE, message |-> <<>>],
    [has |-> TRUE, message |-> <<>>],
    [has |-> TRUE, message |-> <<" ", " ">>],
    [has |-> TRUE, message |-> <<"h", "i">>],
    [has |-> TRUE, message |-> <<" ", "a">>] }

\* completion.choices[0]?.message?.content of a resolved provider call
Completions == { <<"o", "k">>, <<>> }

\* errors a rejected provider call carries: error.status (0: undefined) and
\* error.message
GroqErrors ==
  { [status |-> 429, message |-> <<"R","a","t","e"," ","l","i","m","i","t"," ","r","e","a","c","h","e","d","."," ","P","l","e","a","s","e"," ","t","r","y"," ","a","g","a","i","n"," ","i","n"," ","3","0","s">>],
    [status |-> 401, message |-> <<"I","n","v","a","l","i","d"," ","A","P","I"," ","K","e","y">>],
    [status |-> 401, message |-> <<"I","n","c","o","r","r","e","c","t"," ","A","P","I"," ","k","e","y">>],
    [status |-> 404, message |-> <<"m","o","d","e","l"," ","n","o","t"," ","f","o","u","n","d">>],
    [status |-> 500, message |-> <<"I","n","t","e","r","n","a","l"," ","e","r","r","o","r">>],
    [status |-> 0, message |-> <<"C","o","n","n","e","c","t","i","o","n"," ","e","r","r","o","r",".">>] }

\* errors of the store (a failed query or write): no status
StoreErrors ==
  { [status |-> 0, message |-> <<"s","t","o","r","e"," ","e","r","r","o","r">>] }

\* route parameter :sessionId
SessionIds == { ToString(t) : t \in 1..MaxClock }

\* ------------------------------------------------------------- state
VARIABLES
  GROQ_API_KEY,  \* process.env.GROQ_API_KEY is set
  clock,         \* the value Date.now() returns
  store,         \* the chats collection, in natural (insertion) order
  reqs,          \* the handlers in flight at an await, in order of arrival
  res            \* the response sent last

svars == <<GROQ_API_KEY, clock, store, reqs, res>>

\* the state of the client (App)
VARIABLES
  currentSession,      \* "" for null
  message,
  chatHistory,
  sessions,
  loading,
  error,
  rateLimitCountdown,
  ops,                 \* the client's requests awaited, each by its function
  countdownFrom,       \* the seconds the countdown was set to last
  ticks                \* the timer ticks since then

cvars ==
  <<currentSession, message, chatHistory, sessions, loading, error,
    rateLimitCountdown, ops, countdownFrom, ticks>>

VARIABLES
  hits,      \* the limiter's store: the requests counted for each address
  reached,   \* of these, the requests passed on to a route handler
  arrivals   \* the requests that have come in

lvars == <<hits, reached, arrivals>>

vars == <<svars, cvars, lvars>>

\* ------------------------------------------------------------- store
\* A document is known by its place in the collection (its _id is not
\* modelled): a handler holding a loaded document holds its place, "at".
NoChat == [sessionId |-> "", messages |-> <<>>, createdAt |-> 0, updatedAt |-> 0]

\* new Chat({ sessionId, messages: [] }): the schema defaults stamp it
NewChat(sessionId, now) ==
  [sessionId |-> sessionId, messages |-> <<>>, createdAt |-> now,
   updatedAt |-> now]

\* place of the first document with this sessionId, 0 when there is none
FindIndex(st, sessionId) ==
  IF \E i \in 1..Len(st) : st[i].sessionId = sessionId
  THEN CHOOSE i \in 1..Len(st) :
         /\ st[i].sessionId = sessionId
         /\ \A j \in 1..(i - 1) : st[j].sessionId # sessionId
  ELSE 0

\* Chat.findOne({ sessionId }): the document, or NoChat for null
FindOne(st, sessionId) ==
  IF FindIndex(st, sessionId) = 0 THEN NoChat ELSE st[FindIndex(st, sessionId)]

RemoveAt(s, i) == SubSeq(s, 1, i - 1) \o SubSeq(s, i + 1, Len(s))

\* { role: 'user', content }
User(content) == [role |-> "user", content |-> content]

\* { role: 'assistant', content }
Assistant(content) == [role |-> "assistant", content |-> content]

\* chat.messages.push({ role, content })
Push(chat, role, content) ==
  [chat EXCEPT !.messages = Append(@, [role |-> role, content |-> content])]

\* a context that leaves out the message pushed last, the current user turn
GroqFormatHistoryOnly(messages) ==
  [i \in 1..(Len(messages) - 1) |->
     [role |-> messages[i].role, content |-> messages[i].content]]

\* chat.messages.map(msg => ({ role: msg.role, content: msg.content }))
GroqFormat(messages) ==
  [i \in 1..Len(messages) |->
     [role |-> messages[i].role, content |-> messages[i].content]]

\* a save() that loses the message pushed last
SaveWithoutLast(st, q) ==
  IF q.isNew
  THEN Append(st, [q.chat EXCEPT !.messages = SubSeq(@, 1, Len(@) - 1)])
  ELSE [st EXCEPT ![q.at] =
          [@ EXCEPT !.messages =
                      @ \o SubSeq(q.chat.messages, q.base + 1,
                                  Len(q.chat.messages) - 1),
                    !.updatedAt = q.chat.updatedAt]]

\* a save() that writes the handler's whole copy of the messages over the
\* stored ones
SaveWhole(st, q) ==
  IF q.isNew
  THEN Append(st, q.chat)
  ELSE [st EXCEPT ![q.at] =
          [@ EXCEPT !.messages = q.chat.messages,
                    !.updatedAt = q.chat.updatedAt]]

\* a save() that rejects when the document was written since it was loaded
SaveOkUnchanged(q) == q.isNew \/ (q.at # 0 /\ q.alone)

\* save() of a loaded document finds it (it was not deleted meanwhile)
SaveOk(q) == q.isNew \/ q.at # 0

\* a document's save(): a new document is inserted; a loaded one is updated
\* in place with the messages pushed since it was loaded and its updatedAt
Save(st, q) ==
  IF q.isNew
  THEN Append(st, q.chat)
  ELSE [st EXCEPT ![q.at] =
          [@ EXCEPT !.messages =
                      @ \o SubSeq(q.chat.messages, q.base + 1,
                                  Len(q.chat.messages)),
                    !.updatedAt = q.chat.updatedAt]]

\* ------------------------------------------------------------- requests
NoRes == [op |-> "none", status |-> 0, error |-> <<>>, response |-> <<>>]

\* res.status(status).json(...) of the handler op
Respond(op, status) == [NoRes EXCEPT !.op = op, !.status = status]

RECURSIVE SumLen(_)
SumLen(st) == IF st = <<>> THEN 0 ELSE Len(Head(st).messages) + SumLen(Tail(st))

Handlers == 1..Len(reqs)

PendingNew == Cardinality({ r \in Handlers : reqs[r].isNew })

PendingPosts == Cardinality({ r \in Handlers : reqs[r].pc # "creating" })

\* the provider calls made by the handlers in flight
RECURSIVE Calls(_)
Calls(rs) == IF rs = <<>> THEN 0 ELSE Head(rs).calls + Calls(Tail(rs))

\* a write to sessionId by handler r (0: by none in flight): the other
\* handlers on that session are no longer alone with it
Disturb(rs, r, sessionId) ==
  [x \in 1..Len(rs) |->
     IF x # r /\ rs[x].chat.sessionId = sessionId
     THEN [rs[x] EXCEPT !.alone = FALSE]
     ELSE rs[x]]

\* the document at place i is removed: the handlers keep track of theirs
Removed(rs, i) ==
  [x \in 1..Len(rs) |->
     [rs[x] EXCEPT !.at = IF @ = i THEN 0 ELSE IF @ > i THEN @ - 1 ELSE @]]

\* ------------------------------------------------------------- responses
\* the catch block of the message post: the status it answers an error with
CatchStatus(e) ==
  IF e.status = 429 THEN 429
  ELSE IF e.message # <<>> /\ Includes(e.message, API_KEY) THEN 401
  ELSE IF e.status = 404 THEN 404
  ELSE 500

\* ... and the error text of that answer
CatchError(e) ==
  IF e.status = 429 THEN ERR_RATE
  ELSE IF e.message # <<>> /\ Includes(e.message, API_KEY) THEN ERR_AUTH
  ELSE IF e.status = 404 THEN ERR_MODEL
  ELSE ERR_PROCESS

CatchResponse(e) ==
  [Respond("post", CatchStatus(e)) EXCEPT !.error = CatchError(e)]

\* a listing without the projection: the whole document
SummaryWithMessages(doc) == doc

\* the projection { sessionId: 1, createdAt: 1, updatedAt: 1 }
Summary(doc) ==
  [sessionId |-> doc.sessionId, createdAt |-> doc.createdAt,
   updatedAt |-> doc.updatedAt]

Perms(n) == { p \in [1..n -> 1..n] : \A i, j \in 1..n : i # j => p[i] # p[j] }

\* the orders of .sort({ updatedAt: 1 }), oldest update first
SortOrdersAscending(st) ==
  { p \in Perms(Len(st)) :
      \A i \in 1..(Len(st) - 1) : st[p[i]].updatedAt <= st[p[i + 1]].updatedAt }

\* the orders .sort({ updatedAt: -1 }) can return the documents in:
\* updatedAt descending, documents with equal updatedAt in any order
SortOrders(st) ==
  { p \in Perms(Len(st)) :
      \A i \in 1..(Len(st) - 1) : st[p[i]].updatedAt >= st[p[i + 1]].updatedAt }

\* the bodies GET /api/chats can answer with
Listings(st) ==
  { [i \in 1..Len(st) |-> Summary(st[p[i]])] : p \in SortOrders(st) }

\* ------------------------------------------------------------- actions
InitServer ==
  /\ GROQ_API_KEY \in BOOLEAN
  /\ clock = 1
  /\ store = <<>>
  /\ reqs = <<>>
  /\ res = NoRes

\* time passes
Tick ==
  /\ clock < MaxClock
  /\ clock' = clock + 1
  /\ UNCHANGED <<GROQ_API_KEY, store, reqs, res>>

\* GET /api/chats: answers one of Listings(store)
ListChats ==
  /\ Listings(store) # {}
  /\ res' = Respond("list", 200)
  /\ UNCHANGED <<GROQ_API_KEY, clock, store, reqs>>

\* GET /api/chats/:sessionId: answers FindOne(store, sessionId), or 404
GetChat(sessionId) ==
  /\ res' = IF FindIndex(store, sessionId) = 0
            THEN [Respond("get", 404) EXCEPT !.error = ERR_NOCHAT]
            ELSE Respond("get", 200)
  /\ UNCHANGED <<GROQ_API_KEY, clock, store, reqs>>

\* POST /api/chats, to its await: the session id is the time, the document
\* is built
CreateChat ==
  /\ Len(reqs) < MaxReq
  /\ Len(store) + PendingNew < MaxDocs
  /\ reqs' = Append(reqs,
       [pc |-> "creating", isNew |-> TRUE, at |-> 0,
        chat |-> NewChat(ToString(clock), clock), base |-> 0,
        message |-> <<>>, groqMessages |-> <<>>, assistantResponse |-> <<>>,
        alone |-> TRUE, readUpdatedAt |-> 0, calls |-> 0])
  /\ UNCHANGED <<GROQ_API_KEY, clock, store, res>>

\* POST /api/chats, from its await: the document is inserted
CreateSaved(r) ==
  /\ r \in Handlers
  /\ reqs[r].pc = "creating"
  /\ store' = Save(store, reqs[r])
  /\ reqs' = RemoveAt(Disturb(reqs, r, reqs[r].chat.sessionId), r)
  /\ res' = Respond("create", 200)
  /\ UNCHANGED <<GROQ_API_KEY, clock>>

\* a check of the body that does not trim it: !message
RejectedUntrimmed(body) == ~body.has \/ body.message = <<>>

\* the body of a message post is refused: !message || message.trim() === ''
Rejected(body) ==
  \/ ~body.has
  \/ body.message = <<>>
  \/ Trim(body.message) = <<>>

\* the handler's copy of the session, its user message pushed
Loaded(sessionId, body) ==
  Push(IF FindIndex(store, sessionId) = 0
       THEN NewChat(sessionId, clock)
       ELSE FindOne(store, sessionId),
       "user", body.message)

\* a message post that does not look at the key
PostMessageKeyUnchecked(sessionId, body) ==
  /\ Len(reqs) < MaxReq
  /\ IF Rejected(body)
     THEN /\ res' = [Respond("post", 400) EXCEPT
                       !.error = ERR_REQUIRED]
          /\ UNCHANGED <<store, reqs>>
     ELSE /\ SumLen(store) + 2 * PendingPosts + 2 <= MaxMsgs
          /\ FindIndex(store, sessionId) = 0 => Len(store) + PendingNew < MaxDocs
          /\ reqs' = Append(reqs,
               [pc |-> "calling",
                isNew |-> FindIndex(store, sessionId) = 0,
                at |-> FindIndex(store, sessionId),
                chat |-> Loaded(sessionId, body),
                base |-> Len(FindOne(store, sessionId).messages),
                message |-> body.message,
                groqMessages |-> GroqFormat(Loaded(sessionId, body).messages),
                assistantResponse |-> <<>>,
                alone |-> TRUE,
                readUpdatedAt |-> FindOne(store, sessionId).updatedAt,
                calls |-> 1])
          /\ UNCHANGED <<store, res>>
  /\ UNCHANGED <<GROQ_API_KEY, clock>>

\* POST /api/chats/:sessionId/message, to the provider call
PostMessage(sessionId, body) ==
  /\ Len(reqs) < MaxReq
  /\ IF Rejected(body)
     THEN /\ res' = [Respond("post", 400) EXCEPT
                       !.error = ERR_REQUIRED]
          /\ UNCHANGED <<store, reqs>>
     ELSE IF ~GROQ_API_KEY
     THEN /\ res' = [Respond("post", 500) EXCEPT !.error = ERR_NOKEY]
          /\ UNCHANGED <<store, reqs>>
     ELSE /\ SumLen(store) + 2 * PendingPosts + 2 <= MaxMsgs
          /\ FindIndex(store, sessionId) = 0 => Len(store) + PendingNew < MaxDocs
          /\ reqs' = Append(reqs,
               [pc |-> "calling",
                isNew |-> FindIndex(store, sessionId) = 0,
                at |-> FindIndex(store, sessionId),
                chat |-> Loaded(sessionId, body),
                base |-> Len(FindOne(store, sessionId).messages),
                message |-> body.message,
                groqMessages |-> GroqFormat(Loaded(sessionId, body).messages),
                assistantResponse |-> <<>>,
                alone |-> TRUE,
                readUpdatedAt |-> FindOne(store, sessionId).updatedAt,
                calls |-> 1])
          /\ UNCHANGED <<store, res>>
  /\ UNCHANGED <<GROQ_API_KEY, clock>>

\* Chat.findOne of a message post rejects
PostFindFails(sessionId, body, e) ==
  /\ Len(reqs) < MaxReq
  /\ ~Rejected(body)
  /\ GROQ_API_KEY
  /\ res' = CatchResponse(e)
  /\ UNCHANGED <<GROQ_API_KEY, clock, store, reqs>>

\* completion.choices[0]?.message?.content || 'No response generated'
AssistantResponse(content) == IF content = <<>> THEN NO_RESPONSE ELSE content

\* the provider call resolves: the reply is pushed, updatedAt is set, save()
\* is called
GroqResolves(r, content) ==
  /\ r \in Handlers
  /\ reqs[r].pc = "calling"
  /\ reqs' = [reqs EXCEPT ![r] =
       [@ EXCEPT !.pc = "saving",
                 !.assistantResponse = AssistantResponse(content),
                 !.chat = [Push(@, "assistant", AssistantResponse(content))
                             EXCEPT !.updatedAt = clock]]]
  /\ UNCHANGED <<GROQ_API_KEY, clock, store, res>>

\* a catch block that saves the handler's copy, user message included
GroqRejectsAndSaves(r, e) ==
  /\ r \in Handlers
  /\ reqs[r].pc = "calling"
  /\ res' = CatchResponse(e)
  /\ store' = IF SaveOk(reqs[r]) THEN Save(store, reqs[r]) ELSE store
  /\ reqs' = RemoveAt(reqs, r)
  /\ UNCHANGED <<GROQ_API_KEY, clock>>

\* a handler that calls the provider once more after a first failure
GroqRejectsAndRetries(r, e) ==
  /\ r \in Handlers
  /\ reqs[r].pc = "calling"
  /\ IF reqs[r].calls < 2
     THEN reqs' = [reqs EXCEPT ![r].calls = @ + 1] /\ UNCHANGED res
     ELSE res' = CatchResponse(e) /\ reqs' = RemoveAt(reqs, r)
  /\ UNCHANGED <<GROQ_API_KEY, clock, store>>

\* the provider call rejects: the catch block answers
GroqRejects(r, e) ==
  /\ r \in Handlers
  /\ reqs[r].pc = "calling"
  /\ res' = CatchResponse(e)
  /\ reqs' = RemoveAt(reqs, r)
  /\ UNCHANGED <<GROQ_API_KEY, clock, store>>

\* chat.save() resolves and the handler answers; a loaded document deleted
\* meanwhile makes save() reject (no document found)
PostSaved(r) ==
  /\ r \in Handlers
  /\ reqs[r].pc = "saving"
  /\ IF SaveOk(reqs[r])
     THEN /\ store' = Save(store, reqs[r])
          /\ res' = [Respond("post", 200) EXCEPT
                       !.response = reqs[r].assistantResponse]
          /\ reqs' = RemoveAt(Disturb(reqs, r, reqs[r].chat.sessionId), r)
     ELSE /\ \E e \in StoreErrors :
               res' = CatchResponse(e)
          /\ reqs' = RemoveAt(reqs, r)
          /\ UNCHANGED store
  /\ UNCHANGED <<GROQ_API_KEY, clock>>

\* chat.save() rejects for a failure of the store
PostSaveFails(r, e) ==
  /\ r \in Handlers
  /\ reqs[r].pc = "saving"
  /\ res' = CatchResponse(e)
  /\ reqs' = RemoveAt(reqs, r)
  /\ UNCHANGED <<GROQ_API_KEY, clock, store>>

\* DELETE /api/chats/:sessionId: deleteOne removes the first match
DeleteChat(sessionId) ==
  /\ IF FindIndex(store, sessionId) = 0
     THEN /\ res' = [Respond("delete", 404) EXCEPT
                       !.error = ERR_NOCHAT]
          /\ UNCHANGED <<store, reqs>>
     ELSE /\ store' = RemoveAt(store, FindIndex(store, sessionId))
          /\ res' = Respond("delete", 200)
          /\ reqs' = Removed(Disturb(reqs, 0, sessionId),
                             FindIndex(store, sessionId))
  /\ UNCHANGED <<GROQ_API_KEY, clock>>

\* ------------------------------------------------------------- client
NoError == [status |-> 0, message |-> <<>>]

\* what a request was answered with: ok for a 2xx response; status 0 and no
\* error text when there is no response or no data.error
NoAnswer ==
  [ok |-> FALSE, status |-> 0, error |-> <<>>, response |-> <<>>,
   sessionId |-> "", data |-> <<>>]

Ok == [NoAnswer EXCEPT !.ok = TRUE, !.status = 200]

Failed(status, text) == [NoAnswer EXCEPT !.status = status, !.error = text]

\* the answer axios gives the client for a response of the server
Answer(r) == IF r.status = 200 THEN Ok ELSE Failed(r.status, r.error)

\* a request awaited by a function of the client: the function (kind), the
\* values it holds (sessionId, message, history, active), for fetchSessions
\* the function awaiting it (tail), and where the request is (stage)
Request(kind, sessionId, tail) ==
  [kind |-> kind, stage |-> "sent", sessionId |-> sessionId,
   message |-> <<>>, history |-> <<>>, active |-> "", tail |-> tail,
   answer |-> NoAnswer, cause |-> NoError]

Awaited == 1..Len(ops)

\* the effect on currentSession: a change to a session fetches its history
HistoryEffect(next, os) ==
  IF next # currentSession /\ next # ""
  THEN Append(os, Request("history", next, "none"))
  ELSE os

Listed(sessionId) == \E k \in 1..Len(sessions) : sessions[k].sessionId = sessionId

InitClient ==
  /\ currentSession = ""
  /\ message = <<>>
  /\ chatHistory = <<>>
  /\ sessions = <<>>
  /\ loading = FALSE
  /\ error = <<>>
  /\ rateLimitCountdown = 0
  /\ countdownFrom = 0
  /\ ticks = 0

\* an interval callback that tests prev <= 0
CountdownTickLate ==
  /\ rateLimitCountdown > 0
  /\ IF rateLimitCountdown <= 0
     THEN error' = <<>> /\ rateLimitCountdown' = 0
     ELSE rateLimitCountdown' = rateLimitCountdown - 1 /\ UNCHANGED error
  /\ ticks' = ticks + 1
  /\ UNCHANGED <<currentSession, message, chatHistory, sessions, loading, ops,
                 countdownFrom>>

\* the interval callback of the countdown effect
CountdownTick ==
  /\ rateLimitCountdown > 0
  /\ IF rateLimitCountdown <= 1
     THEN error' = <<>> /\ rateLimitCountdown' = 0
     ELSE rateLimitCountdown' = rateLimitCountdown - 1 /\ UNCHANGED error
  /\ ticks' = ticks + 1
  /\ UNCHANGED <<currentSession, message, chatHistory, sessions, loading, ops,
                 countdownFrom>>

\* fetchSessions, from its await, awaited by a function without a finally
SessionsFetchedNoFinally(i, a) ==
  /\ i \in Awaited
  /\ ops[i].kind = "list"
  /\ IF a.ok
     THEN sessions' = a.data /\ UNCHANGED error
     ELSE error' = CERR_SESSIONS /\ UNCHANGED sessions
  /\ ops' = RemoveAt(ops, i)
  /\ UNCHANGED <<currentSession, message, chatHistory, loading,
                 rateLimitCountdown, countdownFrom, ticks>>

\* fetchSessions, from its await
SessionsFetched(i, a) ==
  /\ i \in Awaited
  /\ ops[i].kind = "list"
  /\ IF a.ok
     THEN sessions' = a.data /\ UNCHANGED error
     ELSE error' = CERR_SESSIONS /\ UNCHANGED sessions
  /\ loading' = IF ops[i].tail \in {"create", "send"} THEN FALSE ELSE loading
  /\ ops' = RemoveAt(ops, i)
  /\ UNCHANGED <<currentSession, message, chatHistory, rateLimitCountdown,
                 countdownFrom, ticks>>

\* fetchChatHistory, from its await
HistoryFetched(i, a) ==
  /\ i \in Awaited
  /\ ops[i].kind = "history"
  /\ IF a.ok
     THEN chatHistory' = a.data /\ UNCHANGED error
     ELSE error' = CERR_HISTORY /\ UNCHANGED chatHistory
  /\ ops' = RemoveAt(ops, i)
  /\ UNCHANGED <<currentSession, message, sessions, loading,
                 rateLimitCountdown, countdownFrom, ticks>>

\* createNewChat, to its await (the buttons are disabled while loading)
ClickNewChat ==
  /\ ~loading
  /\ Len(ops) + 2 <= MaxOps
  /\ loading' = TRUE
  /\ ops' = Append(ops, Request("create", "", "none"))
  /\ UNCHANGED <<currentSession, message, chatHistory, sessions, error,
                 rateLimitCountdown, countdownFrom, ticks>>

\* createNewChat, from its await to the await of fetchSessions, or its end
ChatCreated(i, a) ==
  /\ i \in Awaited
  /\ ops[i].kind = "create"
  /\ IF a.ok
     THEN /\ currentSession' = a.sessionId
          /\ chatHistory' = <<>>
          /\ message' = <<>>
          /\ error' = <<>>
          /\ ops' = HistoryEffect(a.sessionId,
                                  [ops EXCEPT ![i] = Request("list", "", "create")])
          /\ UNCHANGED loading
     ELSE /\ error' = CERR_CREATE
          /\ loading' = FALSE
          /\ ops' = RemoveAt(ops, i)
          /\ UNCHANGED <<currentSession, chatHistory, message>>
  /\ UNCHANGED <<sessions, rateLimitCountdown, countdownFrom, ticks>>

\* the message input: shown with a session, disabled while loading or
\* counting down
TypeMessage(text) ==
  /\ currentSession # ""
  /\ ~loading
  /\ rateLimitCountdown = 0
  /\ message' = text
  /\ UNCHANGED <<currentSession, chatHistory, sessions, loading, error,
                 rateLimitCountdown, ops, countdownFrom, ticks>>

\* a form whose input and button stay enabled during the countdown
CanSubmitWhileCounting ==
  /\ currentSession # ""
  /\ Trim(message) # <<>>
  /\ ~loading

\* the form can be submitted: it is shown, and its input and button are enabled
CanSubmit ==
  /\ currentSession # ""
  /\ Trim(message) # <<>>
  /\ ~loading
  /\ rateLimitCountdown = 0

\* sendMessage goes on: not (!message.trim() || !currentSession)
SendGuard == Trim(message) # <<>> /\ currentSession # ""

\* sendMessage, to its await
SubmitMessage ==
  /\ CanSubmit
  /\ SendGuard
  /\ Len(ops) < MaxOps
  /\ Len(chatHistory) + 2 <= MaxMsgs
  /\ loading' = TRUE
  /\ error' = <<>>
  /\ ops' = Append(ops,
       [Request("send", currentSession, "none") EXCEPT
          !.message = Trim(message), !.history = chatHistory])
  /\ UNCHANGED <<currentSession, message, chatHistory, sessions,
                 rateLimitCountdown, countdownFrom, ticks>>

\* the catch block of sendMessage: the error shown and, when seconds are
\* found in a rate-limit text, the countdown set (set: it is set)
SendFailure(a) ==
  IF a.error # <<>>
  THEN IF /\ Includes(a.error, RATE_LIMIT_EXCEEDED)
          /\ Includes(a.error, <<"s">>)
          /\ MatchSeconds(a.error) # <<>>
       THEN [set |-> TRUE, seconds |-> ParseInt(MatchSeconds(a.error)),
             error |-> WAIT_PREFIX
                         \o NumberText(ParseInt(MatchSeconds(a.error)))
                         \o WAIT_SUFFIX]
       ELSE [set |-> FALSE, seconds |-> 0, error |-> a.error]
  ELSE IF a.status = 429 THEN [set |-> FALSE, seconds |-> 0, error |-> CERR_RATE]
  ELSE IF a.status = 401 THEN [set |-> FALSE, seconds |-> 0, error |-> CERR_KEY]
  ELSE [set |-> FALSE, seconds |-> 0, error |-> CERR_SEND]

\* sendMessage, from its await to the await of fetchSessions, or its end
MessageSent(i, a) ==
  /\ i \in Awaited
  /\ ops[i].kind = "send"
  /\ IF a.ok
     THEN /\ chatHistory' = ops[i].history
               \o <<User(ops[i].message), Assistant(a.response)>>
          /\ message' = <<>>
          /\ ops' = [ops EXCEPT ![i] = Request("list", "", "send")]
          /\ UNCHANGED <<loading, error, rateLimitCountdown, countdownFrom,
                         ticks>>
     ELSE /\ error' = SendFailure(a).error
          /\ IF SendFailure(a).set
             THEN /\ rateLimitCountdown' = SendFailure(a).seconds
                  /\ countdownFrom' = SendFailure(a).seconds
                  /\ ticks' = 0
             ELSE UNCHANGED <<rateLimitCountdown, countdownFrom, ticks>>
          /\ loading' = FALSE
          /\ ops' = RemoveAt(ops, i)
          /\ UNCHANGED <<chatHistory, message>>
  /\ UNCHANGED <<currentSession, sessions>>

\* selectSession, of a session of the sidebar
SelectSession(sessionId) ==
  /\ Listed(sessionId)
  /\ sessionId # currentSession => Len(ops) < MaxOps
  /\ currentSession' = sessionId
  /\ error' = <<>>
  /\ ops' = HistoryEffect(sessionId, ops)
  /\ UNCHANGED <<message, chatHistory, sessions, loading, rateLimitCountdown,
                 countdownFrom, ticks>>

\* deleteSession, of a session of the sidebar, to its await
ClickDelete(sessionId) ==
  /\ Listed(sessionId)
  /\ Len(ops) < MaxOps
  /\ ops' = Append(ops,
       [Request("delete", sessionId, "none") EXCEPT !.active = currentSession])
  /\ UNCHANGED <<currentSession, message, chatHistory, sessions, loading,
                 error, rateLimitCountdown, countdownFrom, ticks>>

\* deleteSession, from its await to the await of fetchSessions, or its end
SessionDeleted(i, a) ==
  /\ i \in Awaited
  /\ ops[i].kind = "delete"
  /\ IF a.ok
     THEN /\ IF ops[i].active = ops[i].sessionId
             THEN currentSession' = "" /\ chatHistory' = <<>>
             ELSE UNCHANGED <<currentSession, chatHistory>>
          /\ ops' = [ops EXCEPT ![i] = Request("list", "", "delete")]
          /\ UNCHANGED error
     ELSE /\ error' = CERR_DELETE
          /\ ops' = RemoveAt(ops, i)
          /\ UNCHANGED <<currentSession, chatHistory>>
  /\ UNCHANGED <<message, sessions, loading, rateLimitCountdown,
                 countdownFrom, ticks>>

\* the button of the error banner
DismissError ==
  /\ error # <<>>
  /\ error' = <<>>
  /\ UNCHANGED <<currentSession, message, chatHistory, sessions, loading,
                 rateLimitCountdown, ops, countdownFrom, ticks>>

\* what the user types
Typed == { <<>>, <<" ">>, <<"h", "i", " ">> }

\* ------------------------------------------------------------- a server
\* The client beside any server at API_BASE_URL: what a request of the client
\* can be answered with.
AnySummaries ==
  { <<>>,
    <<[sessionId |-> "1", createdAt |-> 1, updatedAt |-> 1]>>,
    <<[sessionId |-> "2", createdAt |-> 2, updatedAt |-> 2],
      [sessionId |-> "1", createdAt |-> 1, updatedAt |-> 1]>> }

AnyMessages == { <<>>, <<User(<<"h", "i">>), Assistant(<<"o", "k">>)>> }

AnyErrors ==
  { Failed(0, <<>>),
    Failed(429, <<>>),
    Failed(401, <<>>),
    Failed(429, ERR_RATE),
    Failed(500, ERR_PROCESS),
    \* 'Rate limit exceeded. Try again in 12s'
    Failed(429, <<"R","a","t","e"," ","l","i","m","i","t"," ","e","x","c","e","e","d","e","d","."," ","T","r","y"," ","a","g","a","i","n"," ","i","n"," ","1","2","s">>),
    \* 'Rate limit exceeded, retry in 3s.'
    Failed(429, <<"R","a","t","e"," ","l","i","m","i","t"," ","e","x","c","e","e","d","e","d",","," ","r","e","t","r","y"," ","i","n"," ","3","s",".">>) }

AnyAnswers(kind) ==
  CASE kind = "list" ->
         { [Ok EXCEPT !.data = l] : l \in AnySummaries } \cup {Failed(500, <<>>)}
    [] kind = "history" ->
         { [Ok EXCEPT !.data = m] : m \in AnyMessages } \cup {Failed(404, ERR_NOCHAT)}
    [] kind = "create" ->
         { [Ok EXCEPT !.sessionId = x] : x \in SessionIds } \cup {Failed(500, <<>>)}
    [] kind = "send" -> { [Ok EXCEPT !.response = <<"o", "k">>] } \cup AnyErrors
    [] kind = "delete" -> { Ok, Failed(404, ERR_NOCHAT) }

AllAnswers ==
  UNION { AnyAnswers(k) : k \in {"list", "history", "create", "send", "delete"} }

\* ------------------------------------------------------------- limiter
\* app.use(limiter) comes before every route: a request is counted for its
\* address and goes on to its route only while the count is within max.
InitLimiter ==
  /\ hits = [a \in Addresses |-> 0]
  /\ reached = [a \in Addresses |-> 0]
  /\ arrivals = 0

\* a limiter that lets the count go one above max
LimitedAbove(a) == hits[a] > max

\* the request now counted for a would bring its count above max
Limited(a) == hits[a] >= max

\* a request of address a is counted and goes on to its route
Passes(a) ==
  /\ arrivals < MaxArrivals
  /\ ~Limited(a)
  /\ hits' = [hits EXCEPT ![a] = @ + 1]
  /\ reached' = [reached EXCEPT ![a] = @ + 1]
  /\ arrivals' = arrivals + 1

\* a request of address a is counted and answered 429 by the limiter
LimiterRejects(a) ==
  /\ arrivals < MaxArrivals
  /\ Limited(a)
  /\ hits' = [hits EXCEPT ![a] = @ + 1]
  /\ arrivals' = arrivals + 1
  /\ res' = Respond("limiter", 429)
  /\ UNCHANGED <<GROQ_API_KEY, clock, store, reqs, reached>>

\* the window of the addresses in S ends: their counts are dropped
WindowExpires(S) ==
  /\ \E a \in S : hits[a] > 0
  /\ hits' = [a \in Addresses |-> IF a \in S THEN 0 ELSE hits[a]]
  /\ reached' = [a \in Addresses |-> IF a \in S THEN 0 ELSE reached[a]]
  /\ UNCHANGED <<svars, arrivals>>

\* GET /api/health
Health ==
  /\ res' = Respond("health", 200)
  /\ UNCHANGED <<GROQ_API_KEY, clock, store, reqs>>

\* GET /api/test-groq: one call of the provider, its completion or its error
TestGroq ==
  /\ res' \in IF GROQ_API_KEY
              THEN { Respond("test", 200),
                     [Respond("test", 500) EXCEPT !.error = ERR_TEST] }
              ELSE { [Respond("test", 500) EXCEPT !.error = ERR_NOKEY] }
  /\ UNCHANGED <<GROQ_API_KEY, clock, store, reqs>>

\* ------------------------------------------------------------- specifications
\* the server, its requests made by any callers (the client is not running)
Init == InitServer /\ InitClient /\ ops = <<>> /\ InitLimiter

Next ==
  \/ Tick /\ UNCHANGED <<cvars, lvars>>
  \/ ListChats /\ UNCHANGED <<cvars, lvars>>
  \/ \E sessionId \in SessionIds : GetChat(sessionId) /\ UNCHANGED <<cvars, lvars>>
  \/ CreateChat /\ UNCHANGED <<cvars, lvars>>
  \/ \E r \in 1..MaxReq : CreateSaved(r) /\ UNCHANGED <<cvars, lvars>>
  \/ \E sessionId \in SessionIds, body \in Bodies :
       PostMessage(sessionId, body) /\ UNCHANGED <<cvars, lvars>>
  \/ \E sessionId \in SessionIds, body \in Bodies, e \in StoreErrors :
       PostFindFails(sessionId, body, e) /\ UNCHANGED <<cvars, lvars>>
  \/ \E r \in 1..MaxReq, content \in Completions :
       GroqResolves(r, content) /\ UNCHANGED <<cvars, lvars>>
  \/ \E r \in 1..MaxReq, e \in GroqErrors : GroqRejects(r, e) /\ UNCHANGED <<cvars, lvars>>
  \/ \E r \in 1..MaxReq : PostSaved(r) /\ UNCHANGED <<cvars, lvars>>
  \/ \E r \in 1..MaxReq, e \in StoreErrors :
       PostSaveFails(r, e) /\ UNCHANGED <<cvars, lvars>>
  \/ \E sessionId \in SessionIds : DeleteChat(sessionId) /\ UNCHANGED <<cvars, lvars>>

Spec == Init /\ [][Next]_vars

\* the client, mounted (its first effect fetches the sessions), beside any
\* server
InitOfClient ==
  /\ GROQ_API_KEY = TRUE
  /\ clock = 1
  /\ store = <<>>
  /\ reqs = <<>>
  /\ res = NoRes
  /\ InitClient
  /\ ops = <<Request("list", "", "none")>>
  /\ InitLimiter

\* request i of the client, of this kind, is answered with a
AnyAnswer(i, kind, a) ==
  /\ i \in Awaited
  /\ ops[i].kind = kind
  /\ ops[i].stage = "sent"
  /\ a \in AnyAnswers(kind)

NextOfClient ==
  \/ CountdownTick /\ UNCHANGED <<svars, lvars>>
  \/ \E i \in 1..MaxOps, a \in AllAnswers :
       AnyAnswer(i, "list", a) /\ SessionsFetched(i, a) /\ UNCHANGED <<svars, lvars>>
  \/ \E i \in 1..MaxOps, a \in AllAnswers :
       AnyAnswer(i, "history", a) /\ HistoryFetched(i, a) /\ UNCHANGED <<svars, lvars>>
  \/ ClickNewChat /\ UNCHANGED <<svars, lvars>>
  \/ \E i \in 1..MaxOps, a \in AllAnswers :
       AnyAnswer(i, "create", a) /\ ChatCreated(i, a) /\ UNCHANGED <<svars, lvars>>
  \/ \E text \in Typed : TypeMessage(text) /\ UNCHANGED <<svars, lvars>>
  \/ SubmitMessage /\ UNCHANGED <<svars, lvars>>
  \/ \E i \in 1..MaxOps, a \in AllAnswers :
       AnyAnswer(i, "send", a) /\ MessageSent(i, a) /\ UNCHANGED <<svars, lvars>>
  \/ \E sessionId \in SessionIds : SelectSession(sessionId) /\ UNCHANGED <<svars, lvars>>
  \/ \E sessionId \in SessionIds : ClickDelete(sessionId) /\ UNCHANGED <<svars, lvars>>
  \/ \E i \in 1..MaxOps, a \in AllAnswers :
       AnyAnswer(i, "delete", a) /\ SessionDeleted(i, a) /\ UNCHANGED <<svars, lvars>>
  \/ DismissError /\ UNCHANGED <<svars, lvars>>

ClientSpec == InitOfClient /\ [][NextOfClient]_vars

\* the client, mounted, beside the server: the only caller of the server
InitOfSystem ==
  /\ InitServer
  /\ InitClient
  /\ ops = <<Request("list", "", "none")>>
  /\ InitLimiter

\* the response to request i is on its way to the client
Delivered(i, a) ==
  /\ ops' = [ops EXCEPT ![i].stage = "answered", ![i].answer = a]
  /\ UNCHANGED <<currentSession, message, chatHistory, sessions, loading,
                 error, rateLimitCountdown, countdownFrom, ticks, lvars>>

\* request i has reached one of the two handlers that await
Served(i) ==
  /\ ops' = [ops EXCEPT ![i].stage = "server"]
  /\ UNCHANGED <<currentSession, message, chatHistory, sessions, loading,
                 error, rateLimitCountdown, countdownFrom, ticks, lvars>>

Sent(i, kind) == i \in Awaited /\ ops[i].kind = kind /\ ops[i].stage = "sent"

InServer(i) == i \in Awaited /\ ops[i].stage = "server"

Arrived(i, kind) ==
  i \in Awaited /\ ops[i].kind = kind /\ ops[i].stage = "answered"

\* the body axios sends: { message: message.trim() }
BodyOf(i) == [has |-> TRUE, message |-> ops[i].message]

\* The user types one text and the provider, when it answers, answers "ok".
\* The interval callback is not among the steps: it runs while the countdown
\* is above zero, and no response of this server leaves it above zero.
NextOfSystem ==
  \/ Tick /\ UNCHANGED <<cvars, lvars>>
  \/ \E i \in 1..MaxOps :
       /\ Sent(i, "list")
       /\ ListChats
       /\ \E l \in Listings(store) : Delivered(i, [Answer(res') EXCEPT !.data = l])
  \/ \E i \in 1..MaxOps :
       Arrived(i, "list") /\ SessionsFetched(i, ops[i].answer) /\ UNCHANGED <<svars, lvars>>
  \/ \E i \in 1..MaxOps :
       /\ Sent(i, "history")
       /\ GetChat(ops[i].sessionId)
       /\ Delivered(i, [Answer(res') EXCEPT
                          !.data = FindOne(store, ops[i].sessionId).messages])
  \/ \E i \in 1..MaxOps :
       Arrived(i, "history") /\ HistoryFetched(i, ops[i].answer)
         /\ UNCHANGED <<svars, lvars>>
  \/ ClickNewChat /\ UNCHANGED <<svars, lvars>>
  \/ \E i \in 1..MaxOps : Sent(i, "create") /\ CreateChat /\ Served(i)
  \/ \E i \in 1..MaxOps, r \in 1..MaxReq :
       /\ InServer(i)
       /\ CreateSaved(r)
       /\ Delivered(i, [Answer(res') EXCEPT !.sessionId = reqs[r].chat.sessionId])
  \/ \E i \in 1..MaxOps :
       Arrived(i, "create") /\ ChatCreated(i, ops[i].answer) /\ UNCHANGED <<svars, lvars>>
  \/ TypeMessage(<<"h", "i", " ">>) /\ UNCHANGED <<svars, lvars>>
  \/ SubmitMessage /\ UNCHANGED <<svars, lvars>>
  \/ \E i \in 1..MaxOps :
       /\ Sent(i, "send")
       /\ PostMessage(ops[i].sessionId, BodyOf(i))
       /\ IF reqs' = reqs THEN Delivered(i, Answer(res')) ELSE Served(i)
  \/ \E i \in 1..MaxOps, e \in StoreErrors :
       /\ Sent(i, "send")
       /\ PostFindFails(ops[i].sessionId, BodyOf(i), e)
       /\ Delivered(i, Answer(res'))
  \/ \E r \in 1..MaxReq : GroqResolves(r, <<"o", "k">>) /\ UNCHANGED <<cvars, lvars>>
  \/ \E i \in 1..MaxOps, r \in 1..MaxReq, e \in GroqErrors :
       /\ InServer(i)
       /\ GroqRejects(r, e)
       /\ ops' = [ops EXCEPT ![i].stage = "answered", ![i].answer = Answer(res'),
                             ![i].cause = e]
       /\ UNCHANGED <<currentSession, message, chatHistory, sessions, loading,
                      error, rateLimitCountdown, countdownFrom, ticks, lvars>>
  \/ \E i \in 1..MaxOps, r \in 1..MaxReq :
       /\ InServer(i)
       /\ PostSaved(r)
       /\ Delivered(i, [Answer(res') EXCEPT !.response = res'.response])
  \/ \E i \in 1..MaxOps, r \in 1..MaxReq, e \in StoreErrors :
       InServer(i) /\ PostSaveFails(r, e) /\ Delivered(i, Answer(res'))
  \/ \E i \in 1..MaxOps :
       Arrived(i, "send") /\ MessageSent(i, ops[i].answer) /\ UNCHANGED <<svars, lvars>>
  \/ \E sessionId \in SessionIds : SelectSession(sessionId) /\ UNCHANGED <<svars, lvars>>
  \/ \E sessionId \in SessionIds : ClickDelete(sessionId) /\ UNCHANGED <<svars, lvars>>
  \/ \E i \in 1..MaxOps :
       /\ Sent(i, "delete")
       /\ DeleteChat(ops[i].sessionId)
       /\ Delivered(i, Answer(res'))
  \/ \E i \in 1..MaxOps :
       Arrived(i, "delete") /\ SessionDeleted(i, ops[i].answer)
         /\ UNCHANGED <<svars, lvars>>
  \/ DismissError /\ UNCHANGED <<svars, lvars>>

SystemSpec == InitOfSystem /\ [][NextOfSystem]_vars

\* the server behind its limiter, its requests made by callers of two
\* addresses; an address has made no request yet, or max - 1 requests that
\* left the store empty
InitOfLimiter ==
  /\ InitServer
  /\ InitClient
  /\ ops = <<>>
  /\ hits \in [Addresses -> {0, max - 1}]
  /\ reached = hits
  /\ arrivals = 0

NextOfLimiter ==
  \/ \E a \in Addresses : LimiterRejects(a) /\ UNCHANGED cvars
  \/ \E S \in SUBSET Addresses : WindowExpires(S) /\ UNCHANGED cvars
  \/ \E a \in Addresses : Passes(a) /\ Health /\ UNCHANGED cvars
  \/ \E a \in Addresses : Passes(a) /\ TestGroq /\ UNCHANGED cvars
  \/ \E a \in Addresses : Passes(a) /\ ListChats /\ UNCHANGED cvars
  \/ \E a \in Addresses, sessionId \in SessionIds :
       Passes(a) /\ GetChat(sessionId) /\ UNCHANGED cvars
  \/ \E a \in Addresses : Passes(a) /\ CreateChat /\ UNCHANGED cvars
  \/ \E a \in Addresses, sessionId \in SessionIds, body \in Bodies :
       Passes(a) /\ PostMessage(sessionId, body) /\ UNCHANGED cvars
  \/ \E a \in Addresses, sessionId \in SessionIds :
       Passes(a) /\ DeleteChat(sessionId) /\ UNCHANGED cvars
  \/ \E r \in 1..MaxReq : CreateSaved(r) /\ UNCHANGED <<cvars, lvars>>
  \/ \E r \in 1..MaxReq : GroqResolves(r, <<"o", "k">>)
       /\ UNCHANGED <<cvars, lvars>>
  \/ \E r \in 1..MaxReq, e \in GroqErrors :
       GroqRejects(r, e) /\ UNCHANGED <<cvars, lvars>>
  \/ \E r \in 1..MaxReq : PostSaved(r) /\ UNCHANGED <<cvars, lvars>>

LimiterSpec == InitOfLimiter /\ [][NextOfLimiter]_vars

\* ------------------------------------------------------------- claims
\* the exchange a handler at its save() is about to have answered
Exchange(q) == <<User(q.message), Assistant(q.assistantResponse)>>

\* C1 as claimed: a message post answered with success, with no other write to
\* its session since it read it, leaves the session's stored messages those
\* of before followed by the user message and the reply, and its updatedAt
\* strictly later than before.
C1_GrowsByTwoAndStrictlyLater ==
  [][\A r \in 1..MaxReq :
       (PostSaved(r) /\ SaveOk(reqs[r]) /\ reqs[r].alone) =>
         /\ FindOne(store', reqs[r].chat.sessionId).messages =
              FindOne(store, reqs[r].chat.sessionId).messages
                \o Exchange(reqs[r])
         /\ FindOne(store', reqs[r].chat.sessionId).updatedAt >
              FindOne(store, reqs[r].chat.sessionId).updatedAt]_vars

\* C1 as amended: ... and its updatedAt is the time the provider's reply
\* arrived, which is not earlier than before and not later than now.
C1_GrowsByTwo ==
  [][\A r \in 1..MaxReq :
       (PostSaved(r) /\ SaveOk(reqs[r]) /\ reqs[r].alone) =>
         /\ res'.status = 200
         /\ FindOne(store', reqs[r].chat.sessionId).messages =
              FindOne(store, reqs[r].chat.sessionId).messages
                \o Exchange(reqs[r])
         /\ FindOne(store', reqs[r].chat.sessionId).updatedAt >=
              FindOne(store, reqs[r].chat.sessionId).updatedAt
         /\ FindOne(store', reqs[r].chat.sessionId).updatedAt <= clock]_vars

\* a second exchange has just been stored in a session
C1_Witness ==
  /\ res.op = "post"
  /\ res.status = 200
  /\ \E i \in 1..Len(store) :
       /\ Len(store[i].messages) = 4
       /\ store[i].messages[3].role = "user"
       /\ store[i].messages[4] = Assistant(res.response)

Blank(body) ==
  ~body.has \/ \A i \in 1..Len(body.message) : body.message[i] = " "

\* C3: a message post whose message is missing, empty or whitespace-only is
\* answered 400, starts no provider call and leaves the store unchanged,
\* whatever the store holds and whatever the session id.
C3_BlankMessageRefused ==
  [][\A sessionId \in SessionIds, body \in Bodies :
       (/\ Blank(body)
        /\ clock' = clock
        /\ Len(reqs') >= Len(reqs)
        /\ PostMessage(sessionId, body)) =>
         /\ res'.op = "post"
         /\ res'.status = 400
         /\ store' = store
         /\ reqs' = reqs]_vars

\* a blank message has been refused while a session is stored
C3_Witness ==
  /\ res.op = "post"
  /\ res.status = 400
  /\ store # <<>>

\* the status the class of a provider error asks for: the class is the
\* provider's status code (429 rate limit, 401 authentication, 404 not found)
ClassStatus(e) ==
  IF e.status \in {429, 401, 404} THEN e.status ELSE 500

\* C4 as claimed: a failed provider call is answered with the status of its
\* class (429, 401, 404, else 500), whatever its status code and message text.
C4_StatusByClass ==
  [][\A r \in 1..MaxReq, e \in GroqErrors :
       GroqRejects(r, e) => res'.status = ClassStatus(e)]_vars

\* C5 as claimed: the provider call of a post to a session that holds one
\* earlier exchange receives four messages.
C5_SecondCallGetsFour ==
  \A r \in Handlers :
    (reqs[r].pc = "calling" /\ reqs[r].base = 2) =>
      Len(reqs[r].groqMessages) = 4

\* C5 as amended: it receives three messages: the two of the first exchange
\* as stored, in order, then the current user turn.
C5_SecondCallGetsThree ==
  \A r \in Handlers :
    (/\ reqs[r].pc = "calling"
     /\ reqs[r].alone
     /\ Len(FindOne(store, reqs[r].chat.sessionId).messages) = 2) =>
      /\ reqs[r].groqMessages =
           FindOne(store, reqs[r].chat.sessionId).messages
             \o <<User(reqs[r].message)>>
      /\ Len(reqs[r].groqMessages) = 3
      /\ reqs[r].groqMessages[1].role = "user"
      /\ reqs[r].groqMessages[2].role = "assistant"

\* the provider call of a second post to a session is under way
C5_Witness ==
  \E r \in Handlers :
    /\ reqs[r].pc = "calling"
    /\ reqs[r].alone
    /\ Len(FindOne(store, reqs[r].chat.sessionId).messages) = 2

\* C6 as claimed: no two stored sessions have the same sessionId.
C6_SessionIdsUnique ==
  \A i, j \in 1..Len(store) :
    i # j => store[i].sessionId # store[j].sessionId

\* C7 as claimed: a delete of an id that is not stored is answered 404 and
\* changes nothing; a delete of a stored id is answered with success and no
\* listing after it contains that id.
C7_DeleteRemovesFromListings ==
  [][\A sessionId \in SessionIds :
       DeleteChat(sessionId) =>
         IF FindIndex(store, sessionId) = 0
         THEN res'.status = 404 /\ store' = store
         ELSE /\ res'.status = 200
              /\ \A l \in Listings(store') :
                   \A i \in 1..Len(l) : l[i].sessionId # sessionId]_vars


\* a listing with updatedAt descending
Descending(l) == \A i \in 1..(Len(l) - 1) : l[i].updatedAt >= l[i + 1].updatedAt

\* the place in store' of the document handler r writes
Written(r) == IF reqs[r].isNew THEN Len(store) + 1 ELSE reqs[r].at

\* a session is listed until a delete of its id
ListedUntilDeleted ==
  \A sessionId \in SessionIds :
    (FindIndex(store, sessionId) # 0 /\ FindIndex(store', sessionId) = 0) =>
      DeleteChat(sessionId)

\* C8 as claimed: a session just created is stored with no messages and is in
\* every listing until it is deleted; every listing has updatedAt descending,
\* and the session created or given a successful message post last is first.
C8_LastWrittenListedFirst ==
  [][/\ \A r \in Handlers :
          (Len(reqs') < Len(reqs) /\ CreateSaved(r)) =>
            /\ res'.status = 200
            /\ \E i \in 1..Len(store') :
                 /\ store'[i].sessionId = reqs[r].chat.sessionId
                 /\ store'[i].messages = <<>>
            /\ \A l \in Listings(store') :
                 \E i \in 1..Len(l) : l[i].sessionId = reqs[r].chat.sessionId
     /\ \A r \in Handlers :
          (/\ Len(reqs') < Len(reqs)
           /\ CreateSaved(r) \/ (PostSaved(r) /\ SaveOk(reqs[r]))) =>
            \A l \in Listings(store') :
              Descending(l) /\ l[1].sessionId = reqs[r].chat.sessionId
     /\ ListedUntilDeleted]_vars

\* C8 as amended: ... and the session written last is first when its
\* updatedAt is later than that of every other session.
C8_LatestUpdateListedFirst ==
  [][/\ \A r \in Handlers :
          (Len(reqs') < Len(reqs) /\ CreateSaved(r)) =>
            /\ res'.status = 200
            /\ \E i \in 1..Len(store') :
                 /\ store'[i].sessionId = reqs[r].chat.sessionId
                 /\ store'[i].messages = <<>>
            /\ \A l \in Listings(store') :
                 \E i \in 1..Len(l) : l[i].sessionId = reqs[r].chat.sessionId
     /\ \A r \in Handlers :
          (/\ Len(reqs') < Len(reqs)
           /\ CreateSaved(r) \/ (PostSaved(r) /\ SaveOk(reqs[r]))) =>
            \A l \in Listings(store') :
              /\ Descending(l)
              /\ (\A j \in 1..Len(store') :
                    j # Written(r) =>
                      store'[j].updatedAt < store'[Written(r)].updatedAt)
                 => l[1] = Summary(store'[Written(r)])
     /\ ListedUntilDeleted]_vars

\* a session has just been created beside one updated earlier
C8_Witness ==
  /\ res.op = "create"
  /\ Len(store) = 2
  /\ store[2].messages = <<>>
  /\ store[2].updatedAt > store[1].updatedAt


\* the seconds of the wait hint a provider error carries in its text
WaitHint(e) == ParseInt(MatchSeconds(e.message))

\* C9 as claimed: when the provider failed a message post with a rate-limit
\* error whose text carries a wait hint of N seconds, the client, on the
\* response, shows an error that reports waiting N seconds and sets its
\* countdown to N.
C9_WaitHintReachesClient ==
  [][\A i \in 1..MaxOps :
       (/\ Arrived(i, "send")
        /\ MessageSent(i, ops[i].answer)
        /\ ops[i].cause.status = 429
        /\ MatchSeconds(ops[i].cause.message) # <<>>) =>
         /\ rateLimitCountdown' = WaitHint(ops[i].cause)
         /\ error' = WAIT_PREFIX \o NumberText(WaitHint(ops[i].cause))
                       \o WAIT_SUFFIX]_vars

\* C10: the countdown is never negative and is the seconds it was set to less
\* the ticks since; while it is above zero it changes only by a tick, which
\* takes one off and, when it reaches zero, clears the error; at zero it
\* stays zero until sendMessage sets it again.
C10_Countdown ==
  [][/\ rateLimitCountdown' >= 0
     /\ rateLimitCountdown' = countdownFrom' - ticks'
     /\ CountdownTick =>
          /\ rateLimitCountdown' = rateLimitCountdown - 1
          /\ rateLimitCountdown' = 0 => error' = <<>>
     /\ (rateLimitCountdown > 0 /\ rateLimitCountdown' # rateLimitCountdown)
          => CountdownTick
     /\ (rateLimitCountdown = 0 /\ rateLimitCountdown' # 0) =>
          /\ \E i \in 1..MaxOps : \E a \in AllAnswers : MessageSent(i, a)
          /\ countdownFrom' = rateLimitCountdown'
          /\ ticks' = 0]_vars

\* a countdown set to 12 has reached zero at its twelfth tick
C10_Witness ==
  /\ countdownFrom = 12
  /\ ticks = 12
  /\ rateLimitCountdown = 0
  /\ error = <<>>


\* s is a prefix of t
IsPrefix(s, t) == Len(s) <= Len(t) /\ SubSeq(t, 1, Len(s)) = s

\* a step that deletes no session
NoDelete == \A sessionId \in SessionIds : ~DeleteChat(sessionId)

\* C11: as long as a session is not deleted, its stored message sequence
\* after a step has its stored message sequence before the step as a prefix:
\* for the session of each id and for each stored document, whatever the
\* interleaving of the message posts.
C11_AppendOnly ==
  [][NoDelete =>
       /\ Len(store') >= Len(store)
       /\ \A i \in 1..Len(store) :
            /\ store'[i].sessionId = store[i].sessionId
            /\ IsPrefix(store[i].messages, store'[i].messages)
       /\ \A sessionId \in SessionIds :
            FindIndex(store, sessionId) # 0 =>
              IsPrefix(FindOne(store, sessionId).messages,
                       FindOne(store', sessionId).messages)]_vars

\* two posts read a session before either wrote it; one has written its
\* exchange and the other is about to write
C11_Witness ==
  \E r \in Handlers :
    /\ reqs[r].pc = "saving"
    /\ ~reqs[r].alone
    /\ reqs[r].at # 0
    /\ reqs[r].base = 0
    /\ Len(store[reqs[r].at].messages) = 2
    /\ res.op = "post"
    /\ res.status = 200


\* C12 as claimed: a successful message post to an id that was not stored
\* when the post read it leaves a session stored under that id which fetch
\* returns with the posted exchange as its whole message sequence and an
\* update timestamp of the time of the reply, and which every listing holds.
C12_PostCreatesSession ==
  [][\A r \in 1..MaxReq :
       (PostSaved(r) /\ reqs[r].isNew) =>
         /\ res'.status = 200
         /\ FindOne(store', reqs[r].chat.sessionId).messages = Exchange(reqs[r])
         /\ FindOne(store', reqs[r].chat.sessionId).updatedAt
              = reqs[r].chat.updatedAt
         /\ reqs[r].chat.updatedAt >= reqs[r].chat.createdAt
         /\ \A l \in Listings(store') :
              \E i \in 1..Len(l) : l[i].sessionId = reqs[r].chat.sessionId]_vars


C17_NoMutualExclusion ==
  [][/\ \A r \in 1..Len(reqs') :
          reqs'[r].pc # "creating" =>
            /\ Len(reqs'[r].groqMessages) = reqs'[r].base + 1
            /\ reqs'[r].groqMessages =
                 GroqFormat(SubSeq(reqs'[r].chat.messages, 1, reqs'[r].base))
                   \o <<User(reqs'[r].message)>>
     /\ \A r \in Handlers :
          (/\ Len(reqs') < Len(reqs)
           /\ reqs[r].pc = "saving"
           /\ ~reqs[r].alone
           /\ reqs[r].isNew \/ reqs[r].at # 0
           /\ PostSaved(r)) =>
            /\ res'.status = 200
            /\ res'.response = reqs[r].assistantResponse
            /\ ~reqs[r].isNew =>
                 store'[reqs[r].at].messages =
                   store[reqs[r].at].messages \o Exchange(reqs[r])]_vars

\* two posts were in flight together on a stored session, both read it
\* empty; one has saved its exchange, and the other, whose context is its own
\* user message alone and differs from the message stored, is about to save
C17_Witness ==
  \E r \in Handlers :
    /\ reqs[r].pc = "saving"
    /\ ~reqs[r].alone
    /\ reqs[r].at # 0
    /\ reqs[r].base = 0
    /\ Len(reqs[r].groqMessages) = 1
    /\ Len(store[reqs[r].at].messages) = 2
    /\ store[reqs[r].at].messages[1] # reqs[r].groqMessages[1]
    /\ res.op = "post"
    /\ res.status = 200

\* a stored message sequence alternates user, assistant, from user, and ends
\* with assistant
Alternates(messages) ==
  /\ Len(messages) % 2 = 0
  /\ \A i \in 1..Len(messages) :
       messages[i].role = IF i % 2 = 1 THEN "user" ELSE "assistant"

\* C18: every stored session's message sequence has even length and
\* alternates user, assistant starting with user.
C18_Alternates ==
  \A i \in 1..Len(store) : Alternates(store[i].messages)

\* two sessions are stored, one with two exchanges
C18_Witness ==
  /\ Len(store) = 2
  /\ \E i \in 1..Len(store) : Len(store[i].messages) = 4


\* the step that answers request i of the client
Answered(i) ==
  /\ Len(ops') = Len(ops)
  /\ ops'[i].stage = "answered"
  /\ ops' = [ops EXCEPT ![i].stage = "answered", ![i].answer = ops'[i].answer]

ActionGoesOn(i) ==
  /\ ops[i].stage = "answered"
  /\ \/ ops[i].kind = "create" /\ ChatCreated(i, ops[i].answer)
     \/ ops[i].kind = "send" /\ MessageSent(i, ops[i].answer)
     \/ ops[i].kind = "delete" /\ SessionDeleted(i, ops[i].answer)

\* C15: after the answer to a create, a delete or a send, whatever the answer,
\* the client requests the session list; and when the last request of the
\* client has completed, its session list is the listing of the server.
C15_ListFollowsServer ==
  [][/\ \A i \in 1..Len(ops) :
          ActionGoesOn(i) =>
            /\ Len(ops') >= Len(ops)
            /\ ops'[i].kind = "list"
            /\ ops'[i].stage = "sent"
     /\ ops' = <<>> => sessions' \in Listings(store')]_vars

\* the client displays the stored messages of its active session
ShowsActiveSession ==
  (currentSession' # "" /\ FindIndex(store', currentSession') # 0) =>
    chatHistory' = FindOne(store', currentSession').messages

\* C19: when the client's last request in flight completes and it is a
\* history fetch that succeeded, the messages the client displays are the
\* messages the server stores for the client's active session.
C19_DisplayFollowsServer ==
  [][\A i \in 1..Len(ops) :
       (/\ ops' = <<>>
        /\ ops[i].kind = "history"
        /\ ops[i].stage = "answered"
        /\ ops[i].answer.ok
        /\ HistoryFetched(i, ops[i].answer)) => ShowsActiveSession]_vars

\* the requests awaited by a createNewChat or a sendMessage that is running:
\* its own request, or the list request it awaits before its finally
Running ==
  { i \in 1..Len(ops) :
      \/ ops[i].kind \in {"create", "send"}
      \/ ops[i].kind = "list" /\ ops[i].tail \in {"create", "send"} }

\* C20: loading is true exactly while a createNewChat or a sendMessage is
\* running, so it is false again once the action has ended, with success or
\* with failure; and at most one of them is running at a time.
C20_LoadingWhileRunning ==
  /\ loading <=> Running # {}
  /\ Cardinality(Running) <= 1

\* a send has been answered and its list request is awaited, loading still
\* true, beside a history fetch
C20_Witness ==
  /\ loading
  /\ Len(ops) = 2
  /\ \E i \in 1..Len(ops) : ops[i].kind = "list" /\ ops[i].tail = "send"
  /\ \E i \in 1..Len(ops) : ops[i].kind = "history"

\* C14: in a window no more than max requests of an address are passed on to
\* a route; a request counted beyond max is answered 429 and leaves the store
\* and the handlers in flight (so the calls of the provider) as they were; a
\* window that ends leaves the count at zero; and a request of one address
\* leaves the counts of the other addresses as they were.
C14_LimiterGatesRoutes ==
  [][\A a \in Addresses :
       /\ reached'[a] <= max
       /\ (hits[a] >= max /\ hits'[a] = hits[a] + 1) =>
            /\ res'.status = 429
            /\ store' = store
            /\ reqs' = reqs
            /\ reached' = reached
       /\ hits'[a] < hits[a] => hits'[a] = 0 /\ reached'[a] = 0
       /\ hits'[a] > hits[a] =>
            \A b \in Addresses \ {a} :
              hits'[b] = hits[b] /\ reached'[b] = reached[b]]_vars

\* an address has had max requests passed on and one rejected, and a request
\* of the other address has been passed on since
C14_Witness ==
  \E a \in Addresses, b \in Addresses :
    /\ a # b
    /\ reached[a] = max
    /\ hits[a] = max + 1
    /\ reached[b] = 1
    /\ res.op # "limiter"

\* the message posts among the requests os of the client
Posts(os) == { i \in 1..Len(os) : os[i].kind = "send" }

\* C21: a step of the client that issues a message post is taken with the
\* countdown at zero (whatever was dismissed or selected before) and with an
\* active session, and the post is to that session with the trimmed input,
\* which holds a character that is not a space.
C21_NoPostWhileCountingDown ==
  [][Cardinality(Posts(ops')) > Cardinality(Posts(ops)) =>
       /\ rateLimitCountdown = 0
       /\ currentSession # ""
       /\ \A i \in Posts(ops') :
            /\ ops'[i].sessionId = currentSession
            /\ ops'[i].message = Trim(message)
            /\ \E k \in 1..Len(ops'[i].message) :
                 ops'[i].message[k] # " "]_vars

\* the countdown is running, its banner dismissed, and nothing but the
\* countdown keeps the typed message from being sent
C21_Witness ==
  /\ rateLimitCountdown > 0
  /\ ticks > 0
  /\ error = <<>>
  /\ currentSession # ""
  /\ Trim(message) # <<>>
  /\ ~loading
  /\ Len(ops) < MaxOps

\* C22: when deleteSession goes on from a successful answer, the client has
\* no active session and no messages if the deleted session is the active
\* one, and keeps both otherwise; from a failure it keeps the active session,
\* the messages and the session list, and shows its error.
C22_DeleteFrame ==
  [][\A i \in 1..Len(ops), a \in AnyAnswers("delete") :
       (ops[i].kind = "delete" /\ SessionDeleted(i, a)) =>
         IF a.ok
         THEN IF ops[i].sessionId = currentSession
              THEN currentSession' = "" /\ chatHistory' = <<>>
              ELSE currentSession' = currentSession /\ chatHistory' = chatHistory
         ELSE /\ currentSession' = currentSession
              /\ chatHistory' = chatHistory
              /\ sessions' = sessions
              /\ error' = CERR_DELETE]_vars

\* C23 as stated: without the key, a message post whose message is not empty
\* is answered 500 and leaves the store and the handlers as they were.
C23_NonEmptyAnsweredFiveHundred ==
  [][\A sessionId \in SessionIds, body \in Bodies :
       (/\ ~GROQ_API_KEY
        /\ body.has
        /\ body.message # <<>>
        /\ clock' = clock
        /\ PostMessage(sessionId, body)) =>
         /\ res'.status = 500
         /\ store' = store
         /\ reqs' = reqs]_vars

\* C23: without the key, a message post whose message is not blank is
\* answered 500 'Groq API key not configured' and leaves the store and the
\* handlers as they were; no post is answered with an error of the store; no
\* provider call is in flight and no stored session holds a message.
C23_NoKeyNoPost ==
  [][~GROQ_API_KEY =>
       /\ \A sessionId \in SessionIds, body \in Bodies :
            (~Blank(body) /\ clock' = clock /\ PostMessage(sessionId, body)) =>
              /\ res' = [Respond("post", 500) EXCEPT !.error = ERR_NOKEY]
              /\ store' = store
              /\ reqs' = reqs
       /\ res'.op = "post" => res'.error \in {ERR_REQUIRED, ERR_NOKEY}
       /\ Calls(reqs') = 0
       /\ \A i \in 1..Len(store') : store'[i].messages = <<>>]_vars

\* without the key a post has been answered 500 while a session is stored
C23_Witness ==
  /\ ~GROQ_API_KEY
  /\ res = [Respond("post", 500) EXCEPT !.error = ERR_NOKEY]
  /\ Len(store) = 2

=============================================================================
